---- MODULE Spec2Model ----
(***************************************************************************)
(* skullrump: head/tail over a file of fixed-size binary entries.          *)
(*                                                                         *)
(* The model follows src/src/skullrump.rs: the File resource (contents and *)
(* cursor), the caller's reusable output buffer, BinaryChunkStream's       *)
(* entry_write, head, tail and the loop of stream_in, one seek or one      *)
(* entry_read at a time.  Entries are those of the built-in codecs: a      *)
(* little-endian integer of entry_size bytes, read with read_exact.        *)
(*                                                                         *)
(* i64 is scaled down to IntBits bits, two's complement; everything that   *)
(* the code computes in i64 goes through Overflows / Wrap.  A build with   *)
(* overflow checks (cargo's dev and test profiles) panics on overflow, a   *)
(* build without them (release) wraps: overflow_checks is fixed by Init.   *)
(***************************************************************************)
EXTENDS Integers, Sequences, FiniteSets, TLC

VARIABLES
  file,               \* the File's contents: a sequence of bytes
  cursor,             \* the File's position
  buffer,             \* the caller's reusable output buffer (buffer_out)
  entry_size,         \* T::entry_size() of the entry type in use
  overflow_checks,    \* the build panics on integer overflow (else it wraps)
  faulty,             \* the environment may fail a seek, a read, a write, an encode
  pc,                 \* "idle", "seek", "read" (inside stream_in's loop), "panicked"
  op,                 \* the last call made: "none", "stream_in", "entry_write"
  direction,          \* stream_in's direction argument
  until_entry,        \* stream_in's until_entry argument
  tail_position,      \* stream_in's local
  internal_direction, \* stream_in's local
  entries,            \* stream_in's local: the entries decoded so far
  entry_index,        \* stream_in's local
  ret,                \* what the last call returned: [kind, why]
  offsets,            \* history: the cursor each pushed entry was decoded at
  attempts,           \* history: entry_read calls made by the current stream_in
  seeks,              \* history: seek calls made by the current stream_in
  file0,              \* history: the contents when the last call began
  cursor0,            \* history: the cursor when the last call began
  wr,                 \* history: the last entry_write: value, encode and write outcome
  writes,             \* history: the number of entry_write calls made
  tracking,           \* history: whether memo is kept at all
  memo                \* history: one earlier stream_in on the same contents

vars == <<file, cursor, buffer, entry_size, overflow_checks, faulty, pc, op,
          direction, until_entry, tail_position, internal_direction, entries,
          entry_index, ret, offsets, attempts, seeks, file0, cursor0, wr, writes,
          tracking, memo>>

(***************************************************************************)
(* Bounds of the model and constants of the program.                       *)
(***************************************************************************)
IntBits == 4
MaxFileLen == 5
MaxEntrySize == 2
MaxCount == 3
MaxWrites == 2
ByteBase == 256

Modulus == 2 ^ IntBits
MinInt == -(2 ^ (IntBits - 1))
MaxInt == 2 ^ (IntBits - 1) - 1

Forward == "Forward"
Backward == "Backward"
StreamFlow == {Forward, Backward}

Min(a, b) == IF a <= b THEN a ELSE b

(***************************************************************************)
(* Integer arithmetic of the declared width.                               *)
(***************************************************************************)
Overflows(x) == x < MinInt \/ x > MaxInt
Wrap(x) == ((x - MinInt) % Modulus) + MinInt
AsU64(x) == x % Modulus

(***************************************************************************)
(* The entry codec of the built-in types: little-endian, entry_size bytes. *)
(***************************************************************************)
RECURSIVE Decode(_)
Decode(bytes) ==
  IF bytes = <<>> THEN 0 ELSE Head(bytes) + ByteBase * Decode(Tail(bytes))

Encode(v, size) == [i \in 1..size |-> (v \div (ByteBase ^ (i - 1))) % ByteBase]

\* read_exact of entry_size bytes at the cursor: all of them or an error, and
\* the cursor moves over the bytes that were there.
EntryRead(f, cur, size) ==
  LET avail == IF cur < Len(f) THEN Len(f) - cur ELSE 0
  IN  IF avail >= size
      THEN [ok |-> TRUE, value |-> Decode(SubSeq(f, cur + 1, cur + size)), pos |-> cur + size]
      ELSE [ok |-> FALSE, value |-> 0, pos |-> cur + avail]

(***************************************************************************)
(* The File resource: seek and write_all.                                  *)
(***************************************************************************)
\* File::seek: the target position by whence; an error when the target is
\* negative or not a file offset.
SeekFrom(whence, off, cur, len) ==
  LET target == CASE whence = "Start" -> off
                  [] whence = "End" -> len + off
                  [] OTHER -> cur + off
  IN  [ok |-> target >= 0 /\ target <= MaxInt, pos |-> target]

\* write_all of bytes at position cur: overwrites what is there, extends the
\* file, and fills a gap between the end and cur with zero bytes.
WriteAt(f, cur, bytes) ==
  LET newLen == IF cur + Len(bytes) > Len(f) THEN cur + Len(bytes) ELSE Len(f)
  IN  IF bytes = <<>> THEN f
      ELSE [i \in 1..newLen |->
              IF i > cur /\ i <= cur + Len(bytes) THEN bytes[i - cur]
              ELSE IF i <= Len(f) THEN f[i]
              ELSE 0]

(***************************************************************************)
(* Pieces of stream_in, one definition per line of the source.             *)
(***************************************************************************)
EarlyReturnNegativeOnly(n) == n < 0
\* if until_entry <= 0 { return Ok(entries); }
EarlyReturn(n) == n <= 0

ForwardWhenceCurrent == "Current"
\* self.seek(SeekFrom::Start(position as u64))
ForwardWhence == "Start"

\* self.seek(SeekFrom::End(...))
BackwardWhence == "End"

NextIndexStuck(i) == i
\* entry_index += 1
NextIndex(i) == i + 1

\* if entry_index >= until_entry { break; }
LoopDone(i, n) == i >= n

(***************************************************************************)
(* The environment's faults, and history helpers.                          *)
(***************************************************************************)
Faults == IF faulty THEN BOOLEAN ELSE {FALSE}

None == [direction |-> "none", until_entry |-> 0, entries |-> <<>>, cursor0 |-> 0]
NoWrite == [value |-> 0, encode_ok |-> TRUE, write_ok |-> TRUE]
Ok == [kind |-> "ok", why |-> ""]
Err(why) == [kind |-> "err", why |-> why]
Panic(why) == [kind |-> "panic", why |-> why]

\* The values written, as an entry of the given size holds them.
Values(size) == {v % (ByteBase ^ size) : v \in {9, 300}}

\* The counts asked for: none, a few, and the ends of the integer range.
Counts == {MinInt, MaxInt} \cup (-1..MaxCount)

\* The contents of a file of the given length: its bytes all differ.
InitialBytes(len) == [i \in 1..len |-> i]

InitWith(sizes, faultSet, track, reopened) ==
  /\ entry_size \in sizes
  /\ tracking = track
  /\ overflow_checks \in BOOLEAN
  /\ faulty \in faultSet
  /\ file \in {InitialBytes(len) : len \in 0..MaxFileLen}
  /\ cursor \in {IF r THEN 0 ELSE Len(file) : r \in reopened}
  /\ buffer = <<>>
  /\ pc = "idle"
  /\ op = "none"
  /\ direction = Forward
  /\ until_entry = 0
  /\ tail_position = 0
  /\ internal_direction = Forward
  /\ entries = <<>>
  /\ entry_index = 0
  /\ ret = [kind |-> "none", why |-> ""]
  /\ offsets = <<>>
  /\ attempts = 0
  /\ seeks = 0
  /\ file0 = file
  /\ cursor0 = cursor
  /\ wr = NoWrite
  /\ writes = 0
  /\ memo = None

\* The file as the tests of src/src/lib.rs hand it over: just written, the
\* cursor at its end.
Init == InitWith(1..MaxEntrySize, {FALSE}, FALSE, {FALSE})
\* The same, and an entry type of size 0.
InitSizes == InitWith(0..MaxEntrySize, {FALSE}, FALSE, {FALSE})
\* The same, in an environment whose seeks, reads, writes and encodes may fail.
InitFault == InitWith(1..MaxEntrySize, {TRUE}, FALSE, {FALSE})
\* A file just written or just opened (the cursor at 0), with the history of
\* earlier reads kept.
InitIdem == InitWith(1..MaxEntrySize, {FALSE}, TRUE, BOOLEAN)

\* stream_in returns Ok(entries): the call is over, and the history may keep it.
Returned(ents) ==
  /\ pc' = "idle"
  /\ ret' = Ok
  /\ memo' \in IF ~tracking THEN {memo}
                ELSE {memo, [direction |-> direction', until_entry |-> until_entry',
                             entries |-> ents, cursor0 |-> cursor0']}

(***************************************************************************)
(* stream_in, from its entry to the loop: lines 76-96.                     *)
(***************************************************************************)
StreamIn(dir, n) ==
  /\ pc = "idle"
  /\ op' = "stream_in"
  /\ direction' = dir
  /\ until_entry' = n
  /\ entries' = <<>>
  /\ entry_index' = 0
  /\ offsets' = <<>>
  /\ attempts' = 0
  /\ file0' = file
  /\ cursor0' = cursor
  /\ wr' = NoWrite
  /\ UNCHANGED <<file, buffer, entry_size, overflow_checks, faulty, writes, tracking>>
  /\ IF EarlyReturn(n)
     THEN /\ Returned(<<>>)
          /\ seeks' = 0
          /\ UNCHANGED <<cursor, tail_position, internal_direction>>
     ELSE LET product == entry_size * n
              negated == -Wrap(product)
          IN  IF overflow_checks /\ (Overflows(product) \/ (dir = Backward /\ Overflows(negated)))
              THEN /\ pc' = "panicked"
                   /\ ret' = Panic("overflow")
                   /\ seeks' = 0
                   /\ UNCHANGED <<cursor, tail_position, internal_direction, memo>>
              ELSE /\ tail_position' = Wrap(product)
                   /\ pc' = "seek"
                   /\ UNCHANGED <<ret, memo>>
                   /\ IF dir = Forward
                      THEN /\ internal_direction' = Forward
                           /\ seeks' = 0
                           /\ UNCHANGED cursor
                      ELSE \E fault \in Faults :
                             LET s == SeekFrom(BackwardWhence, Wrap(negated), cursor, Len(file))
                             IN  /\ seeks' = 1
                                 /\ IF s.ok /\ ~fault
                                    THEN /\ internal_direction' = Backward
                                         /\ cursor' = s.pos
                                    ELSE /\ internal_direction' = Forward
                                         /\ UNCHANGED cursor

\* fn head: self.stream_in(StreamFlow::Forward, until_entry)
HeadCall(n) == StreamIn(Forward, n)

\* fn tail: self.stream_in(StreamFlow::Backward, until_entry)
TailCall(n) == StreamIn(Backward, n)

(***************************************************************************)
(* The loop's seek, lines 99-107: an absolute seek, unwrapped.             *)
(***************************************************************************)
LoopSeek ==
  /\ pc = "seek"
  /\ seeks' = seeks + 1
  /\ UNCHANGED <<file, buffer, entry_size, overflow_checks, faulty, op, direction,
                 until_entry, tail_position, internal_direction, entries,
                 entry_index, offsets, attempts, file0, cursor0, wr, writes,
                 tracking, memo>>
  /\ LET product == entry_size * entry_index
         position == Wrap(product)
         back == -Wrap(tail_position - position)
         overflow == \/ Overflows(product)
                     \/ /\ internal_direction = Backward
                        /\ Overflows(tail_position - position) \/ Overflows(back)
     IN  IF overflow_checks /\ overflow
         THEN /\ pc' = "panicked"
              /\ ret' = Panic("overflow")
              /\ UNCHANGED cursor
         ELSE \E fault \in Faults :
                LET s == IF internal_direction = Forward
                         THEN SeekFrom(ForwardWhence, AsU64(position), cursor, Len(file))
                         ELSE SeekFrom(BackwardWhence, Wrap(back), cursor, Len(file))
                IN  IF s.ok /\ ~fault
                    THEN /\ cursor' = s.pos
                         /\ pc' = "read"
                         /\ UNCHANGED ret
                    ELSE /\ pc' = "panicked"
                         /\ ret' = Panic("seek")
                         /\ UNCHANGED cursor

(***************************************************************************)
(* The loop's read, lines 109-122: push and count, or stop.                *)
(***************************************************************************)
LoopRead ==
  /\ pc = "read"
  /\ attempts' = attempts + 1
  /\ UNCHANGED <<file, buffer, entry_size, overflow_checks, faulty, op, direction,
                 until_entry, tail_position, internal_direction, seeks, file0,
                 cursor0, wr, writes, tracking>>
  /\ \E fault \in Faults :
       LET r == IF fault THEN [ok |-> FALSE, value |-> 0, pos |-> cursor]
                ELSE EntryRead(file, cursor, entry_size)
       IN  /\ cursor' = r.pos
           /\ IF r.ok
              THEN /\ entries' = Append(entries, r.value)
                   /\ offsets' = Append(offsets, cursor)
                   /\ entry_index' = NextIndex(entry_index)
                   /\ IF LoopDone(entry_index', until_entry)
                      THEN Returned(entries')
                      ELSE /\ pc' = "seek"
                           /\ UNCHANGED <<ret, memo>>
              ELSE /\ UNCHANGED <<entries, offsets, entry_index>>
                   /\ Returned(entries)

(***************************************************************************)
(* entry_write, lines 42-47.  Result::and takes its argument by value, so  *)
(* write_all, flush and clear run whatever the step before them returned;  *)
(* the result is the first error.  File::flush does nothing.               *)
(***************************************************************************)
EntryWrite(v) ==
  /\ pc = "idle"
  /\ writes < MaxWrites
  /\ writes' = writes + 1
  /\ \E encoded \in (IF faulty THEN 0..entry_size ELSE {entry_size}) :
     \E fault \in Faults :
       LET encode_ok == encoded = entry_size
           filled == buffer \o SubSeq(Encode(v, entry_size), 1, encoded)
           written == IF fault /\ filled # <<>> THEN SubSeq(filled, 1, Len(filled) - 1)
                      ELSE filled
       IN  /\ cursor + Len(filled) <= MaxFileLen
           /\ file' = WriteAt(file, cursor, written)
           /\ cursor' = cursor + Len(written)
           /\ buffer' = <<>>
           /\ wr' = [value |-> v, encode_ok |-> encode_ok, write_ok |-> ~fault]
           /\ ret' = IF ~encode_ok THEN Err("encode")
                     ELSE IF fault THEN Err("write")
                     ELSE Ok
  /\ op' = "entry_write"
  /\ file0' = file
  /\ cursor0' = cursor
  /\ memo' = None
  /\ direction' = Forward
  /\ until_entry' = 0
  /\ tail_position' = 0
  /\ internal_direction' = Forward
  /\ entries' = <<>>
  /\ entry_index' = 0
  /\ offsets' = <<>>
  /\ attempts' = 0
  /\ seeks' = 0
  /\ UNCHANGED <<entry_size, overflow_checks, faulty, pc, tracking>>

Next ==
  \/ \E n \in Counts : HeadCall(n)
  \/ \E n \in Counts : TailCall(n)
  \/ LoopSeek
  \/ LoopRead
  \/ \E v \in Values(entry_size) : EntryWrite(v)

\* The calls that leave the file's contents alone.
NextRead ==
  \/ \E n \in Counts : HeadCall(n)
  \/ \E n \in Counts : TailCall(n)
  \/ LoopSeek
  \/ LoopRead

Spec == Init /\ [][Next]_vars
SpecSizes == InitSizes /\ [][Next]_vars
SpecFault == InitFault /\ [][Next]_vars
SpecIdem == InitIdem /\ [][NextRead]_vars

(***************************************************************************)
(* What the claims are stated in: the whole records of a file.             *)
(***************************************************************************)
NumRecords(f) == Len(f) \div entry_size
Record(f, i) == Decode(SubSeq(f, i * entry_size + 1, (i + 1) * entry_size))
Records(f, from, count) == [j \in 1..count |-> Record(f, from + j - 1)]
InLoop == pc \in {"seek", "read"}
StreamInOver == op = "stream_in" /\ ~InLoop

\* C1: head(n), n > 0, returns the first min(n, k) whole records of the file, in
\* file order, and never fails, whatever n and whether or not a partial slot
\* follows the k records.
C1_HeadReturnsFirstRecords ==
  (StreamInOver /\ direction = Forward /\ until_entry > 0)
    => /\ ret = Ok
       /\ entries = Records(file, 0, Min(until_entry, NumRecords(file)))

\* The same for the counts whose window entry_size * n is an integer of the
\* declared width.
HeadWithinRange ==
  (StreamInOver /\ direction = Forward /\ until_entry > 0
     /\ ~Overflows(entry_size * until_entry))
    => /\ ret = Ok
       /\ entries = Records(file, 0, Min(until_entry, NumRecords(file)))

\* C2: on a file of exactly k records, tail(n), n > 0, returns the last
\* min(n, k) records, oldest first, and never fails, whatever n.
C2_TailReturnsLastRecords ==
  (StreamInOver /\ direction = Backward /\ until_entry > 0
     /\ Len(file) % entry_size = 0)
    => LET k == NumRecords(file)
           m == Min(until_entry, k)
       IN  /\ ret = Ok
           /\ entries = Records(file, k - m, m)

\* The same for the counts whose window entry_size * n is an integer of the
\* declared width.
TailWithinRange ==
  (StreamInOver /\ direction = Backward /\ until_entry > 0
     /\ Len(file) % entry_size = 0 /\ ~Overflows(entry_size * until_entry))
    => LET k == NumRecords(file)
           m == Min(until_entry, k)
       IN  /\ ret = Ok
           /\ entries = Records(file, k - m, m)

\* C3: head(n) and tail(n) with n <= 0 return Ok with no entries at once, make
\* no seek and no read, and leave the file's contents and cursor as they were.
C3_NonPositiveCountIsNoOp ==
  (op = "stream_in" /\ until_entry <= 0)
    => /\ pc = "idle"
       /\ ret = Ok
       /\ entries = <<>>
       /\ seeks = 0
       /\ attempts = 0
       /\ file = file0
       /\ cursor = cursor0

\* A tail with a negative count has returned, on a file whose cursor an earlier
\* call had left between two records.
C3_Witness ==
  /\ op = "stream_in"
  /\ direction = Backward
  /\ until_entry < 0
  /\ ret = Ok
  /\ cursor0 > 0
  /\ cursor0 < Len(file)

\* C4: entry_write(v) on a file of k whole records leaves them as they are and
\* makes v the record after them, wherever earlier calls left the cursor.
C4_WriteEntryAppends ==
  (op = "entry_write" /\ ret = Ok /\ Len(file0) % entry_size = 0)
    => file = file0 \o Encode(wr.value, entry_size)

\* C5: on an unmodified file, a head(n) or tail(n) returns what an earlier call
\* with the same direction and count returned, whatever calls were made in
\* between and wherever they left the cursor.
C5_NoCursorLeak ==
  (op = "stream_in" /\ pc = "idle" /\ memo.direction = direction
     /\ memo.until_entry = until_entry)
    => memo.entries = entries

\* A tail has returned two entries or more, as an earlier tail with the same
\* count did, having started from another cursor position.
C5_Witness ==
  /\ op = "stream_in"
  /\ pc = "idle"
  /\ direction = Backward
  /\ memo.direction = direction
  /\ memo.until_entry = until_entry
  /\ memo.cursor0 # cursor0
  /\ memo.entries = entries
  /\ Len(entries) >= 2

\* C6: on a file that ends in a partial slot, every entry head(n) or tail(n)
\* returns is decoded from one whole slot [i * entry_size, (i + 1) * entry_size)
\* with i < k.
C6_OnlyWholeSlotsDecoded ==
  (op = "stream_in" /\ until_entry > 0 /\ Len(file) % entry_size # 0)
    => \A i \in 1..Len(offsets) :
         /\ offsets[i] % entry_size = 0
         /\ offsets[i] + entry_size <= NumRecords(file) * entry_size

\* C7: when a seek of the loop fails, stream_in returns the error to its caller:
\* the call is over, its result is an Err, and the program has not aborted.
C7_SeekErrorPropagated ==
  (op = "stream_in" /\ ret.why = "seek") => (pc = "idle" /\ ret.kind = "err")

\* C8: without overflow checks, on a file of k whole records, head(n) and
\* tail(n) return all k records for every n > k, also when entry_size * n
\* exceeds the integer range.
C8_WindowArithmeticSound ==
  (StreamInOver /\ ~overflow_checks /\ Len(file) % entry_size = 0
     /\ until_entry > NumRecords(file))
    => /\ ret = Ok
       /\ entries = Records(file, 0, NumRecords(file))

\* C9: when the encode fails, entry_write returns the encode error and neither
\* the file's contents nor its cursor change; when the encode succeeds and the
\* write fails, it returns the write error.
C9_EncodeFailureLeavesFileUnchanged ==
  op = "entry_write"
    => /\ ~wr.encode_ok => (ret = Err("encode") /\ file = file0 /\ cursor = cursor0)
       /\ (wr.encode_ok /\ ~wr.write_ok) => ret = Err("write")

\* C10: a stream_in with n > 0 makes at most n reads and returns at most n
\* entries, for every entry size from 0 up: inside the loop the index is the
\* number of entries pushed and of reads made, and it is below n.
C10_AtMostNIterations ==
  (op = "stream_in" /\ until_entry > 0)
    => /\ attempts <= until_entry
       /\ Len(entries) <= until_entry
       /\ seeks <= until_entry + 1
       /\ entry_index = Len(entries)
       /\ InLoop => (entry_index < until_entry /\ attempts = entry_index)

\* A stream_in over entries of size 0 has returned after the largest count of
\* reads there is.
C10_Witness ==
  /\ op = "stream_in"
  /\ pc = "idle"
  /\ entry_size = 0
  /\ until_entry = MaxInt
  /\ attempts = MaxInt
  /\ Len(entries) = MaxInt

====
